---- MODULE Spec2Model ----
(***************************************************************************)
(* The per-room Game loop of mygame (internal/endpoint/game.go): the       *)
(* select loop of Game.runGame over client events and ticker ticks, with   *)
(* the roster, the queueID maps, the pack prices and the outputs of each   *)
(* iteration (broadcasts, in-band replies, ticker re-arm).                 *)
(*                                                                         *)
(* A handler is a function from the game state at the start of the         *)
(* iteration (the record Cur) to the state where the iteration ends: at    *)
(* the bottom of the loop ("ok"), at a `return` ("return") or at the       *)
(* statement that panics ("panic"); assignments made before a panic are    *)
(* kept, as in the code.                                                   *)
(***************************************************************************)
EXTENDS Integers, Sequences, FiniteSets, TLC

\* ------------------------------------------------------------------ bounds

\* The pack has NumRounds rounds.
NumRounds == 2
\* At most MaxEvents client events and unregistrations happen in one run.
MaxEvents == 4
\* At most MaxClose ticks are handled in WaitingStart or Final in one run.
MaxClose == 2

\* ------------------------------------------------------------ vocabulary

Leader == "Leader"
User == "User"

\* The clients of the room: client L asked for the Leader role, a and b are
\* Users. A client is identified with the token it presented.
Tokens == {"L", "a", "b"}

RoleOf(tok) == IF tok = "L" THEN Leader ELSE User

\* The zero values of Go: a missing map entry of type string, *Client.
NoToken == ""
NilClient == "nil"

StartGame == "start_game"
Join == "join"
Disconnect == "disconnect"
GetQuest == "get_quest"
ChooseQuest == "choose_quest"
GiveAnswer == "give_answer"
DeclineAnswer == "decline_answer"
AcceptAnswer == "accept_answer"

EventTypes ==
  {StartGame, Join, Disconnect, GetQuest, ChooseQuest, GiveAnswer,
   DeclineAnswer, AcceptAnswer}

\* The table without the entry of get_quest.
roleByEvent_noGetQuest(type) ==
  CASE type = StartGame -> {Leader}
    [] type = GiveAnswer -> {User}
    [] type = DeclineAnswer -> {Leader}
    [] type = AcceptAnswer -> {Leader}
    [] type = ChooseQuest -> {User}
    [] OTHER -> {}

roleByEvent(type) ==
  CASE type = StartGame -> {Leader}
    [] type = Join -> {}
    [] type = Disconnect -> {}
    [] type = GetQuest -> {User}
    [] type = GiveAnswer -> {User}
    [] type = DeclineAnswer -> {Leader}
    [] type = AcceptAnswer -> {Leader}
    [] type = ChooseQuest -> {User}
    [] OTHER -> {}

GreetingsServer == "greetings_server"
ReadingRoundServer == "reading_round"
ReadingThemesServer == "reading_themes_server"
WallServer == "wall_server"
GetQuestServer == "get_quest_server"
JoinServer == "join_server"
DisconnectServer == "disconnect_server"
ChooseQuestServer == "choose_quest_server"
TakenQuestServer == "taken_quest_server"
ScoreChangedServer == "score_changed"
AnswerAcceptedServer == "answer_accepted_server"
AnswerDeclinedServer == "answer_declined_server"
FinalServer == "final_server"

WaitingStart == "WaitingStart"
Grettings == "Grettings"
ReadingRound == "ReadingRound"
ReadingThemes == "ReadingThemes"
ChooseQuestion == "ChooseQuestion"
Getting == "Getting"
Answering == "Answering"
Pause == "Pause"
Final == "Final"

Steps ==
  {WaitingStart, Grettings, ReadingRound, ReadingThemes, ChooseQuestion,
   Getting, Answering, Pause, Final}

\* Durations, in seconds.
InitialTick == 1200
GreetingsTime == 10
ReadingRoundTime == 4
ThemeTime == 3
WallTime == 30
ShortTime == 10
AnswerTime == 20
FinalTime == 300

\* Exp of a ServerEvent: time.Now() + d seconds, or the literal 0.
ExpIn(d) == [now |-> TRUE, add |-> d]
ExpZero == [now |-> FALSE, add |-> 0]

NoData == [null |-> TRUE]

\* ------------------------------------------------------------------ pack

\* The themes of a round, each with its number of questions.
RoundShape == <<2, 1>>

NumThemes == Len(RoundShape)

QuestsIn(t) == RoundShape[t]

\* The largest number of questions of a theme.
NumQuests == QuestsIn(1)

\* The price a question is loaded with (positive, one per question).
OrigPrice(r, t, q) == 100 * r + 10 * t + q

\* Theme.Id and Question.Id are the 1-based positions in the parent: the
\* loop uses the ids it stores in currentTheme and currentQuestion as indexes.
ThemeId(t) == t
QuestId(q) == q

\* Rounds[r][t][q] is the Price of the question.
InitRounds ==
  [r \in 1..NumRounds |->
     [t \in 1..NumThemes |-> [q \in 1..QuestsIn(t) |-> OrigPrice(r, t, q)]]]

\* The (theme, question) payloads of choose_quest, in and out of range.
InPack(p) == p[1] \in 1..NumThemes /\ p[2] \in 1..QuestsIn(p[1])

Payloads ==
  {p \in (0..(NumThemes + 1)) \X (0..(NumQuests + 1)) : InPack(p) \/ p[1] = p[2]}
Malformed == <<-1, -1>>

VARIABLES
  status,                 \* "running", "exited" (return), "crashed" (panic),
                          \* "blocked" (suspended in a channel send)
  clients,                \* hub.clients: the tokens of the registered clients
  players,                \* game.players: client -> score
  playersQueueIDByToken,
  playersTokenByQueueID,
  currentStep,
  currentPlayerID,
  currentRound,
  currentTheme,
  currentQuestion,
  Rounds,                 \* game.Rounds, the prices
  ticker,                 \* the period of the ticker, in seconds (0: stopped)
  releases,               \* calls of singleton.DegTemporaryPack
  closes,                 \* signals sent on hub.close
  bcast,                  \* ServerEvents broadcast by the last iteration
  sent,                   \* in-band replies of the last iteration
  rearm,                  \* newDuration of the last iteration (0: not re-armed)
  last,                   \* the input the last iteration handled
  events,                 \* client events and unregistrations so far
  ledger,                 \* per client: signed original prices it answered
  played,                 \* questions played so far, as <<round, theme, question>>
  packs,                  \* the pack registry of singleton: the hashes added
  files,                  \* the files under the packs path: path -> content
  response                \* the last upload request and the response written

gameVars ==
  <<players, playersQueueIDByToken, playersTokenByQueueID, currentStep,
    currentPlayerID, currentRound, currentTheme, currentQuestion, Rounds>>

uploadVars == <<packs, files, response>>

vars ==
  <<status, clients, players, playersQueueIDByToken,
    playersTokenByQueueID, currentStep, currentPlayerID, currentRound,
    currentTheme, currentQuestion, Rounds, ticker, releases, closes, bcast,
    sent, rearm, last, events, ledger, played, packs, files, response>>

\* ------------------------------------------------------------ Go lookups

\* m[k] of a Go map: the zero value when k is missing.
QueueIDOf(byTok, tok) == IF tok \in DOMAIN byTok THEN byTok[tok] ELSE 0

TokenOf(byQ, qid) == IF qid \in DOMAIN byQ THEN byQ[qid] ELSE NoToken

\* game.hub.clients[tok]
ClientOf(tok) == IF tok \in clients THEN tok ELSE NilClient

\* game.players[client] is not nil
IsPlayer(g, client) == client \in DOMAIN g.players

\* An empty Go map.
Empty == [x \in {} |-> 0]

Drop(f, k) == [x \in (DOMAIN f) \ {k} |-> f[x]]

Put(f, k, v) == (k :> v) @@ f

\* ------------------------------------------------------- one loop iteration

\* The game state at the start of an iteration, with nothing emitted yet.
Cur ==
  [step |-> currentStep, pid |-> currentPlayerID, round |-> currentRound,
   theme |-> currentTheme, quest |-> currentQuestion, players |-> players,
   byTok |-> playersQueueIDByToken, byQ |-> playersTokenByQueueID,
   rounds |-> Rounds, releases |-> releases, closes |-> closes,
   out |-> <<>>, msgs |-> {}, dur |-> 0, outcome |-> "ok",
   ledger |-> ledger, played |-> played]

Panic(g) == [g EXCEPT !.outcome = "panic"]

Return(g) == [g EXCEPT !.outcome = "return"]

\* game.broadcastServerEvent(type, data, exp)
broadcastServerEvent(g, type, data, exp) ==
  [g EXCEPT !.out = Append(@, [Type |-> type, Exp |-> exp, Data |-> data])]

\* game.hub.clients[tok].send <- msg
Reply(g, tok, msg) ==
  IF ClientOf(tok) = NilClient
  THEN Panic(g)
  ELSE [g EXCEPT !.msgs = @ \cup {<<tok, msg>>}]

\* The token does not parse or has expired: the client is looked up, and the
\* loop returns; with no client in the map the nil client is dereferenced.
tokenRejected(g, tok) ==
  IF ClientOf(tok) = NilClient THEN Panic(g) ELSE Return(g)

\* The role check: "pass", "denied", or "panic" (the role of a nil client).
RoleCheck(type, tok) ==
  IF roleByEvent(type) = {}
  THEN "pass"
  ELSE IF ClientOf(tok) = NilClient
       THEN "panic"
       ELSE IF RoleOf(tok) \in roleByEvent(type) THEN "pass" ELSE "denied"

\* ------------------------------------------------------------ the wall

InRounds(g) == g.round \in 1..Len(g.rounds)

\* game.Rounds[currentRound-1].Themes[currentTheme-1].Quests[currentQuestion-1]
\* is in range.
InWall(g) ==
  /\ InRounds(g)
  /\ g.theme \in 1..Len(g.rounds[g.round])
  /\ g.quest \in 1..Len(g.rounds[g.round][g.theme])

CurPrice(g) == g.rounds[g.round][g.theme][g.quest]

\* The loop that sets `found`: a question of the current round with a price
\* >= 0 and an id other than currentQuestion.
Found(g) ==
  \E t \in 1..Len(g.rounds[g.round]) :
    \E q \in 1..Len(g.rounds[g.round][t]) :
      g.rounds[g.round][t][q] >= 0 /\ QuestId(q) # g.quest

AdvanceRound(r) == r + 1

\* The orders in which `range game.players` may visit the players.
Orders(S) ==
  {o \in [1..Cardinality(S) -> S] : \A i, j \in 1..Cardinality(S) : o[i] = o[j] => i = j}

RECURSIVE winnerLoop(_, _, _, _, _)
winnerLoop(g, order, i, maxScore, winnerID) ==
  IF i > Len(order)
  THEN winnerID
  ELSE IF g.players[order[i]] > maxScore
       THEN winnerLoop(g, order, i + 1, g.players[order[i]], QueueIDOf(g.byTok, order[i]))
       ELSE winnerLoop(g, order, i + 1, maxScore, winnerID)

\* The winnerID the loop over game.players computes, for the order taken.
WinnerID(g, order) == winnerLoop(g, order, 1, 0, 0)

\* The block shared by accept_answer, decline_answer and the Getting and
\* Answering ticks: the step after the current question. durNext is the
\* duration when the round advances, durSame when it does not; declined
\* selects the broadcasts of decline_answer.
\* The branch of the round-advance block that ends the game: Final, five
\* minutes, the winner computed, final_server broadcast.
finalBranch(g, declined, order) ==
  LET f == [g EXCEPT !.step = Final, !.dur = FinalTime]
      w == [WinnerID |-> WinnerID(g, order)]
  IN  IF declined
      THEN broadcastServerEvent(
             broadcastServerEvent(f, AnswerDeclinedServer, NoData, ExpIn(FinalTime)),
             FinalServer, w, ExpZero)
      ELSE broadcastServerEvent(f, FinalServer, w, ExpIn(FinalTime))

advanceWall(g, durNext, durSame, declined, order) ==
  IF ~Found(g)
  THEN IF Len(g.rounds) > g.round - 1
       THEN [g EXCEPT !.round = AdvanceRound(@), !.step = ChooseQuestion, !.dur = durNext]
       ELSE finalBranch(g, declined, order)
  ELSE [g EXCEPT !.step = ChooseQuestion, !.dur = durSame]

\* game.hub.clients[game.playersTokenByQueueID[game.currentPlayerID]]
CurrentClient(g) == ClientOf(TokenOf(g.byQ, g.pid))

\* The rotation of currentPlayerID after a scoring.
Rotate(pid, n) == IF n > pid THEN pid + 1 ELSE 1

rotate(g) == [g EXCEPT !.pid = Rotate(@, Cardinality(DOMAIN g.players))]

\* players[client].score += delta, with the ledger of the claim side: the
\* current player answered the question <<r0, theme, quest>> for sign * its
\* original price.
score(g, client, delta, r0, sign) ==
  LET cur == CurrentClient(g)
      led == IF cur \in DOMAIN g.ledger
             THEN [g.ledger EXCEPT ![cur] = @ + sign * OrigPrice(r0, g.theme, g.quest)]
             ELSE g.ledger
  IN  [g EXCEPT !.players[client] = @ + delta,
                !.ledger = led,
                !.played = @ \cup {<<r0, g.theme, g.quest>>}]
\* ------------------------------------------------------ client events

\* start_game that starts whatever the roster is.
startGame_noRosterCheck(g, tok) ==
  broadcastServerEvent(
    [g EXCEPT !.step = Grettings, !.dur = GreetingsTime],
    GreetingsServer, [Name |-> "pack"], ExpIn(GreetingsTime))

\* start_game that starts the pack again from its first round.
startGame_resetRound(g, tok) ==
  IF Cardinality(DOMAIN g.players) = 0
  THEN Reply(g, tok, "cannot start game: no players")
  ELSE broadcastServerEvent(
         [g EXCEPT !.step = Grettings, !.round = 0, !.dur = GreetingsTime],
         GreetingsServer, [Name |-> "pack"], ExpIn(GreetingsTime))

startGame(g, tok) ==
  IF Cardinality(DOMAIN g.players) = 0
  THEN Reply(g, tok, "cannot start game: no players")
  ELSE broadcastServerEvent(
         [g EXCEPT !.step = Grettings, !.dur = GreetingsTime],
         GreetingsServer, [Name |-> "pack"], ExpIn(GreetingsTime))

\* The queueID a join assigns.
NextQueueID(byTok) == Cardinality(DOMAIN byTok) + 1

\* join that makes a Player of every client, the Leader too.
join_leaderPlays(g, tok) ==
  IF ClientOf(tok) = NilClient
  THEN Panic(g)
  ELSE LET queueID == NextQueueID(g.byTok)
           g1 == [g EXCEPT !.players = Put(@, ClientOf(tok), 0),
                           !.byTok = Put(@, tok, queueID),
                           !.byQ = Put(@, queueID, tok)]
       IN  broadcastServerEvent(
             g1, JoinServer, [QueueID |-> queueID, Nickname |-> tok], ExpZero)

join(g, tok) ==
  IF ClientOf(tok) = NilClient
  THEN Panic(g)
  ELSE IF RoleOf(tok) = Leader
       THEN broadcastServerEvent(g, JoinServer, [QueueID |-> 0, Nickname |-> tok], ExpZero)
       ELSE LET queueID == NextQueueID(g.byTok)
                g1 == [g EXCEPT !.players = Put(@, ClientOf(tok), 0),
                                !.byTok = Put(@, tok, queueID),
                                !.byQ = Put(@, queueID, tok)]
            IN  broadcastServerEvent(
                  g1, JoinServer, [QueueID |-> queueID, Nickname |-> tok], ExpZero)

\* The player of the token leaves the roster (and, on the claim side, its
\* ledger starts again); the queueID maps are not touched.
\* disconnect that empties the roster.
disconnect_clearsRoster(g, tok) ==
  broadcastServerEvent(
    [g EXCEPT !.players = Empty], DisconnectServer,
    [QueueID |-> QueueIDOf(g.byTok, tok)], ExpZero)

disconnect(g, tok) ==
  LET g1 == IF tok \in DOMAIN g.players
            THEN [g EXCEPT !.players = Drop(@, tok), !.ledger[tok] = 0]
            ELSE g
  IN  broadcastServerEvent(
        g1, DisconnectServer, [QueueID |-> QueueIDOf(g.byTok, tok)], ExpZero)

chooseQuest(g, tok, data) ==
  IF data = Malformed
  THEN g
  ELSE broadcastServerEvent(
         [g EXCEPT !.theme = data[1], !.quest = data[2], !.step = Getting,
                   !.dur = ShortTime],
         ChooseQuestServer, [ThemeID |-> data[1], QuestionID |-> data[2]],
         ExpIn(ShortTime))

\* get_quest that takes the question whatever the step.
getQuest_anyStep(g, tok) ==
  IF ~IsPlayer(g, ClientOf(tok))
  THEN Panic(g)
  ELSE IF RoleOf(tok) = User
       THEN broadcastServerEvent(
              [g EXCEPT !.step = Answering, !.pid = QueueIDOf(g.byTok, tok),
                        !.dur = AnswerTime],
              TakenQuestServer, [QueueID |-> QueueIDOf(g.byTok, tok)],
              ExpIn(AnswerTime))
       ELSE g

getQuest(g, tok) ==
  IF g.step = Getting
  THEN IF ~IsPlayer(g, ClientOf(tok))
       THEN Panic(g)
       ELSE IF RoleOf(tok) = User
            THEN broadcastServerEvent(
                   [g EXCEPT !.step = Answering, !.pid = QueueIDOf(g.byTok, tok),
                             !.dur = AnswerTime],
                   TakenQuestServer, [QueueID |-> QueueIDOf(g.byTok, tok)],
                   ExpIn(AnswerTime))
            ELSE g
  ELSE g

acceptAnswer(g, tok, order) ==
  IF ~InRounds(g)
  THEN Panic(g)
  ELSE LET g1 == advanceWall(g, WallTime, WallTime, FALSE, order) IN
       IF ~InWall(g1) \/ ~IsPlayer(g1, CurrentClient(g1))
       THEN Panic(g1)
       ELSE LET g2 == rotate(score(g1, CurrentClient(g1), CurPrice(g1), g.round, 1)) IN
            IF ~IsPlayer(g2, ClientOf(tok))
            THEN Panic(g2)
            ELSE broadcastServerEvent(
                   broadcastServerEvent(g2, AnswerAcceptedServer, NoData, ExpIn(g2.dur)),
                   ScoreChangedServer,
                   [QueueID |-> g2.pid, Score |-> g2.players[ClientOf(tok)]], ExpZero)

declineAnswer(g, tok, order) ==
  IF ~InRounds(g)
  THEN Panic(g)
  ELSE LET g1 == advanceWall(g, WallTime, ShortTime, TRUE, order) IN
       IF ~InWall(g1) \/ ~IsPlayer(g1, ClientOf(tok))
       THEN Panic(g1)
       ELSE LET g2 == rotate(score(g1, ClientOf(tok), 0 - CurPrice(g1), g.round, -1)) IN
            broadcastServerEvent(
              g2, ScoreChangedServer,
              [QueueID |-> g2.pid, Score |-> g2.players[ClientOf(tok)]], ExpIn(g2.dur))

\* The switch on event.Type, after the role check passed.
dispatch(g, type, tok, data, order) ==
  CASE type = StartGame -> startGame(g, tok)
    [] type = Join -> join(g, tok)
    [] type = Disconnect -> disconnect(g, tok)
    [] type = ChooseQuest -> chooseQuest(g, tok, data)
    [] type = GetQuest -> getQuest(g, tok)
    [] type = AcceptAnswer -> acceptAnswer(g, tok, order)
    [] type = DeclineAnswer -> declineAnswer(g, tok, order)
    [] OTHER -> g

\* An event whose token parses and has not expired.
handleEvent(g, type, tok, data, order) ==
  CASE RoleCheck(type, tok) = "panic" -> Panic(g)
    [] RoleCheck(type, tok) = "denied" -> Reply(g, tok, "permission denied")
    [] OTHER -> dispatch(g, type, tok, data, order)

\* ------------------------------------------------------------- ticks

\* WaitingStart and Final: the pack is released and the hub told to close;
\* `break` leaves the switch, not the loop.
tickClose(g) == [g EXCEPT !.releases = @ + 1, !.closes = @ + 1]

tickGrettings(g) ==
  LET g1 == IF Len(g.rounds) > g.round
            THEN [g EXCEPT !.step = ReadingRound, !.round = AdvanceRound(@),
                           !.dur = ReadingRoundTime]
            ELSE broadcastServerEvent(
                   [g EXCEPT !.step = Final, !.dur = FinalTime],
                   FinalServer, [WinnerID |-> 1], ExpIn(FinalTime))
  IN  IF ~InRounds(g1)
      THEN Panic(g1)
      ELSE broadcastServerEvent(g1, ReadingRoundServer, [Round |-> g1.round], ExpIn(g1.dur))

\* The ReadingRound tick with one theme's time whatever the number of themes.
tickReadingRound_oneThemeTime(g) ==
  LET g1 == [g EXCEPT !.step = ReadingThemes] IN
  IF ~InRounds(g1)
  THEN Panic(g1)
  ELSE broadcastServerEvent(
         [g1 EXCEPT !.dur = ThemeTime], ReadingThemesServer,
         [ThemeNames |-> [t \in 1..Len(g1.rounds[g1.round]) |-> ThemeId(t)]],
         ExpIn(ThemeTime))

tickReadingRound(g) ==
  LET g1 == [g EXCEPT !.step = ReadingThemes] IN
  IF ~InRounds(g1)
  THEN Panic(g1)
  ELSE LET d == Len(g1.rounds[g1.round]) * ThemeTime IN
       broadcastServerEvent(
         [g1 EXCEPT !.dur = d], ReadingThemesServer,
         [ThemeNames |-> [t \in 1..Len(g1.rounds[g1.round]) |-> ThemeId(t)]], ExpIn(d))

tickReadingThemes(g) ==
  LET g1 == [g EXCEPT !.step = ChooseQuestion, !.dur = WallTime] IN
  IF ~InRounds(g1)
  THEN Panic(g1)
  ELSE broadcastServerEvent(g1, WallServer, [Themes |-> g1.rounds[g1.round]], ExpIn(WallTime))

\* The positions <<theme, question>> of a round in the order of the loops.
RECURSIVE Positions(_, _, _)
Positions(round, t, q) ==
  IF t > Len(round)
  THEN <<>>
  ELSE IF q > Len(round[t])
       THEN Positions(round, t + 1, 1)
       ELSE <<<<t, q>>>> \o Positions(round, t, q + 1)

\* The auto-pick: the loops overwrite themeID and quest at every question
\* with a price >= 0 and never break; <<0, 0>> stands for quest == nil.
RECURSIVE pickLoop(_, _, _, _)
pickLoop(round, pos, i, pick) ==
  IF i > Len(pos)
  THEN pick
  ELSE IF round[pos[i][1]][pos[i][2]] >= 0
       THEN pickLoop(round, pos, i + 1, <<ThemeId(pos[i][1]), QuestId(pos[i][2])>>)
       ELSE pickLoop(round, pos, i + 1, pick)

AutoPick(round) == pickLoop(round, Positions(round, 1, 1), 1, <<0, 0>>)

tickChooseQuestion(g) ==
  LET g1 == [g EXCEPT !.step = Getting] IN
  IF ~InRounds(g1)
  THEN Panic(g1)
  ELSE LET pick == AutoPick(g1.rounds[g1.round]) IN
       IF pick = <<0, 0>>
       THEN Panic(g1)
       ELSE broadcastServerEvent(
              [g1 EXCEPT !.quest = pick[2], !.theme = pick[1], !.dur = ShortTime],
              GetQuestServer, [QueueID |-> g1.pid], ExpIn(ShortTime))

tickGetting(g, order) ==
  IF ~InRounds(g)
  THEN Panic(g)
  ELSE LET g1 == advanceWall(g, WallTime, ShortTime, FALSE, order) IN
       IF ~InWall(g1)
       THEN Panic(g1)
       ELSE LET g2 == [g1 EXCEPT !.rounds[g1.round][g1.theme][g1.quest] = -1,
                                 !.played = @ \cup {<<g.round, g.theme, g.quest>>}]
            IN  broadcastServerEvent(
                  g2, WallServer, [Themes |-> g2.rounds[g2.round]], ExpIn(g2.dur))

tickAnswering(g, order) ==
  IF ~InRounds(g)
  THEN Panic(g)
  ELSE LET g1 == advanceWall(g, ShortTime, ShortTime, FALSE, order) IN
       IF ~InWall(g1) \/ ~IsPlayer(g1, CurrentClient(g1))
       THEN Panic(g1)
       ELSE LET g2 == rotate(score(g1, CurrentClient(g1), 0 - CurPrice(g1), g.round, -1)) IN
            IF ~IsPlayer(g2, CurrentClient(g2))
            THEN Panic(g2)
            ELSE broadcastServerEvent(
                   g2, ScoreChangedServer,
                   [QueueID |-> g2.pid, Score |-> g2.players[CurrentClient(g2)]],
                   ExpIn(g2.dur))
\* ------------------------------------------------------------ actions

\* The input an iteration handles.
Input(kind, type, tok, jwt) ==
  [kind |-> kind, type |-> type, tok |-> tok, jwt |-> jwt]

\* What the iteration that ends in g assigned and sent.
Assigned(g) ==
  /\ currentStep' = g.step
  /\ currentPlayerID' = g.pid
  /\ currentRound' = g.round
  /\ currentTheme' = g.theme
  /\ currentQuestion' = g.quest
  /\ players' = g.players
  /\ playersQueueIDByToken' = g.byTok
  /\ playersTokenByQueueID' = g.byQ
  /\ Rounds' = g.rounds
  /\ releases' = g.releases
  /\ closes' = g.closes
  /\ ledger' = g.ledger
  /\ played' = g.played
  /\ bcast' = g.out
  /\ sent' = g.msgs
  /\ UNCHANGED clients
  /\ UNCHANGED uploadVars

\* The period of a ticker that was stopped.
Stopped == 0

\* The iteration ends in g: the loop goes on, returns or panics. The ticker is
\* re-armed at the bottom of the loop when newDuration is not 0, and stopped
\* by the deferred ticker.Stop() when runGame is left.
Commit(g, input) ==
  /\ Assigned(g)
  /\ status' = CASE g.outcome = "panic" -> "crashed"
                 [] g.outcome = "return" -> "exited"
                 [] OTHER -> "running"
  /\ rearm' = IF g.outcome = "ok" THEN g.dur ELSE 0
  /\ ticker' = CASE g.outcome # "ok" -> Stopped
                 [] g.dur # 0 -> g.dur
                 [] OTHER -> ticker
  /\ last' = input

\* A client that is or was connected sends an event with its token; the hub
\* that was told to close has closed the sockets, and no event arrives.
Sender(tok) ==
  /\ status = "running"
  /\ closes = 0
  /\ tok \in Tokens
  /\ events < MaxEvents
  /\ events' = events + 1

\* An event whose token parses and has not expired is handled.
Handled(g, type, tok) == Commit(g, Input("event", type, tok, "ok"))

NoOrder == <<>>

StartGameEvent(tok) ==
  /\ Sender(tok)
  /\ Handled(handleEvent(Cur, StartGame, tok, Malformed, NoOrder), StartGame, tok)

JoinEvent(tok) ==
  /\ Sender(tok)
  /\ Handled(handleEvent(Cur, Join, tok, Malformed, NoOrder), Join, tok)

DisconnectEvent(tok) ==
  /\ Sender(tok)
  /\ Handled(handleEvent(Cur, Disconnect, tok, Malformed, NoOrder), Disconnect, tok)

ChooseQuestEvent(tok, data) ==
  /\ Sender(tok)
  /\ Handled(handleEvent(Cur, ChooseQuest, tok, data, NoOrder), ChooseQuest, tok)

GetQuestEvent(tok) ==
  /\ Sender(tok)
  /\ Handled(handleEvent(Cur, GetQuest, tok, Malformed, NoOrder), GetQuest, tok)

GiveAnswerEvent(tok) ==
  /\ Sender(tok)
  /\ Handled(handleEvent(Cur, GiveAnswer, tok, Malformed, NoOrder), GiveAnswer, tok)

AcceptAnswerEvent(tok) ==
  /\ Sender(tok)
  /\ \E order \in Orders(DOMAIN players) :
       Handled(handleEvent(Cur, AcceptAnswer, tok, Malformed, order), AcceptAnswer, tok)

DeclineAnswerEvent(tok) ==
  /\ Sender(tok)
  /\ \E order \in Orders(DOMAIN players) :
       Handled(handleEvent(Cur, DeclineAnswer, tok, Malformed, order), DeclineAnswer, tok)

\* An event of a type the switch does not know.
UnknownEvent(tok) ==
  /\ Sender(tok)
  /\ Handled(handleEvent(Cur, "unknown", tok, Malformed, NoOrder), "unknown", tok)

\* An event of any type whose token does not parse ("invalid") or has
\* expired.
RejectedEvent(tok, jwt) ==
  /\ Sender(tok)
  /\ Commit(tokenRejected(Cur, tok), Input("event", "any", tok, jwt))

\* The ticker fires in the step.
Ticked(step, g) ==
  /\ status = "running"
  /\ currentStep = step
  /\ Commit(g, Input("tick", "tick", NoToken, "ok"))
  /\ UNCHANGED events

TickWaitingStart ==
  /\ closes < MaxClose
  /\ Ticked(WaitingStart, tickClose(Cur))

TickGrettings ==
  /\ currentStep = Grettings
  /\ Ticked(Grettings, tickGrettings(Cur))

TickReadingRound ==
  /\ currentStep = ReadingRound
  /\ Ticked(ReadingRound, tickReadingRound(Cur))

TickReadingThemes ==
  /\ currentStep = ReadingThemes
  /\ Ticked(ReadingThemes, tickReadingThemes(Cur))

TickChooseQuestion ==
  /\ currentStep = ChooseQuestion
  /\ Ticked(ChooseQuestion, tickChooseQuestion(Cur))

TickGetting ==
  /\ currentStep = Getting
  /\ \E order \in Orders(DOMAIN players) : Ticked(Getting, tickGetting(Cur, order))

TickAnswering ==
  /\ currentStep = Answering
  /\ \E order \in Orders(DOMAIN players) : Ticked(Answering, tickAnswering(Cur, order))

TickFinal ==
  /\ closes < MaxClose
  /\ Ticked(Final, tickClose(Cur))

hubUnchanged ==
  UNCHANGED <<status, players, playersQueueIDByToken, playersTokenByQueueID,
              currentStep, currentPlayerID, currentRound, currentTheme,
              currentQuestion, Rounds, ticker, releases, closes, bcast, sent,
              rearm, last, ledger, played, packs, files, response>>

\* The hub removes a client from its map.
Unregister(tok) ==
  /\ status = "running"
  /\ tok \in clients
  /\ events < MaxEvents
  /\ events' = events + 1
  /\ clients' = clients \ {tok}
  /\ hubUnchanged

\* No upload was answered yet.
NoResponse ==
  [req |-> [method |-> "none", form |-> FALSE, jwt |-> "", content |-> "",
            read |-> FALSE, create |-> FALSE],
   code |-> 0, body |-> ""]

\* The room after the handshakes: every client is registered with the hub;
\* no pack was uploaded.
Init ==
  /\ status = "running"
  /\ clients = Tokens
  /\ players = Empty
  /\ playersQueueIDByToken = Empty
  /\ playersTokenByQueueID = Empty
  /\ currentStep = WaitingStart
  /\ currentPlayerID = 0
  /\ currentRound = 0
  /\ currentTheme = 0
  /\ currentQuestion = 0
  /\ Rounds = InitRounds
  /\ ticker = InitialTick
  /\ releases = 0
  /\ closes = 0
  /\ bcast = <<>>
  /\ sent = {}
  /\ rearm = 0
  /\ last = [kind |-> "init", type |-> "init", tok |-> NoToken, jwt |-> "ok"]
  /\ events = 0
  /\ ledger = [tok \in Tokens |-> 0]
  /\ played = {}
  /\ packs = {}
  /\ files = Empty
  /\ response = NoResponse

Next ==
  \/ \E tok \in Tokens : StartGameEvent(tok)
  \/ \E tok \in Tokens : JoinEvent(tok)
  \/ \E tok \in Tokens : DisconnectEvent(tok)
  \/ \E tok \in Tokens : \E data \in Payloads \cup {Malformed} : ChooseQuestEvent(tok, data)
  \/ \E tok \in Tokens : GetQuestEvent(tok)
  \/ \E tok \in Tokens : GiveAnswerEvent(tok)
  \/ \E tok \in Tokens : AcceptAnswerEvent(tok)
  \/ \E tok \in Tokens : DeclineAnswerEvent(tok)
  \/ \E tok \in Tokens : UnknownEvent(tok)
  \/ \E tok \in Tokens : \E jwt \in {"invalid", "expired"} : RejectedEvent(tok, jwt)
  \/ TickWaitingStart
  \/ TickGrettings
  \/ TickReadingRound
  \/ TickReadingThemes
  \/ TickChooseQuestion
  \/ TickGetting
  \/ TickAnswering
  \/ TickFinal
  \/ \E tok \in Tokens : Unregister(tok)

Spec == Init /\ [][Next]_vars

\* ------------------------------------------- the loop with full queues

\* The switch on currentStep of a tick.
tick(g, order) ==
  CASE g.step = Grettings -> tickGrettings(g)
    [] g.step = ReadingRound -> tickReadingRound(g)
    [] g.step = ReadingThemes -> tickReadingThemes(g)
    [] g.step = ChooseQuestion -> tickChooseQuestion(g)
    [] g.step = Getting -> tickGetting(g, order)
    [] g.step = Answering -> tickAnswering(g, order)
    [] OTHER -> tickClose(g)

\* The iteration that would end in g reaches a channel send (client.send or
\* hub.broadcast) while that queue is full: the loop is suspended in the
\* send, before the bottom of the loop re-arms the ticker. rearm holds
\* newDuration.
Suspend(g, input) ==
  /\ g.outcome = "ok"
  /\ g.msgs # {} \/ g.out # <<>>
  /\ Assigned(g)
  /\ status' = "blocked"
  /\ rearm' = g.dur
  /\ ticker' = ticker
  /\ last' = input

\* A client event is received and its handler is suspended in a send.
EventBlocked(type, tok, data) ==
  /\ Sender(tok)
  /\ \E order \in Orders(DOMAIN players) :
       Suspend(handleEvent(Cur, type, tok, data, order), Input("event", type, tok, "ok"))

\* The ticker fires and the handler of the step is suspended in a send.
TickBlocked ==
  /\ status = "running"
  /\ \E order \in Orders(DOMAIN players) :
       Suspend(tick(Cur, order), Input("tick", "tick", NoToken, "ok"))
  /\ UNCHANGED events

\* The reader of the queue takes a message: the send completes and the
\* iteration reaches the bottom of the loop.
Resume ==
  /\ status = "blocked"
  /\ status' = "running"
  /\ ticker' = IF rearm # 0 THEN rearm ELSE ticker
  /\ UNCHANGED <<clients, gameVars, releases, closes, bcast, sent, rearm, last,
                 events, ledger, played, packs, files, response>>

QueueNext ==
  \/ Next
  \/ \E type \in EventTypes : \E tok \in Tokens :
       \E data \in Payloads \cup {Malformed} : EventBlocked(type, tok, data)
  \/ TickBlocked
  \/ Resume

QueueSpec == Init /\ [][QueueNext]_vars

\* ------------------------------------------------------- pack upload

\* 150 MiB, in MiB.
MaxPackSize == 150

\* The archives clients upload, with their sizes in MiB.
Contents == {"small", "limit", "big"}

Size(c) == CASE c = "small" -> 10 [] c = "limit" -> MaxPackSize [] OTHER -> MaxPackSize + 1

\* sha256.Sum256 of the bytes, and its hex encoding: distinct archives have
\* distinct digests.
Sum256(c) == <<"sha256", c>>

EncodeToString(hash) == <<"hex", hash>>

SiGameArchivesPath == "/siq_archives"
ToArchiveType == ".zip"

\* Pack.Path + SiGameArchivesPath + "/" + encodedHash + ToArchiveType
ArchivePath(hash) == <<"packs", SiGameArchivesPath, EncodeToString(hash), ToArchiveType>>

\* The upload requests: the method, whether the form has the si_game_pack
\* file, whether the Authorization token parses, the archive, and what the
\* machine does: whether the body can be read and whether the file can be
\* created.
Requests ==
  [method : {"POST", "GET"}, form : BOOLEAN, jwt : {"ok", "invalid"},
   content : Contents, read : BOOLEAN, create : BOOLEAN]

\* responseWriterError(err, w, status, ctx, msg), and the reply of a handler
\* that wrote nothing.
responseWriterError(req, code, msg) == [req |-> req, code |-> code, body |-> msg]

Ok200(req) == [req |-> req, code |-> 200, body |-> ""]

\* The registry as it is when the handler tests it.
IsExistPack(hash) == hash \in packs

\* Endpoint.saveSiGamePack
saveSiGamePack(req) ==
  CASE req.method # "POST" ->
         /\ response' = responseWriterError(req, 405, "")
         /\ UNCHANGED <<packs, files>>
    [] req.method = "POST" /\ ~req.form ->
         /\ response' = responseWriterError(req, 400, "get data from form file error")
         /\ UNCHANGED <<packs, files>>
    [] req.method = "POST" /\ req.form /\ req.jwt # "ok" ->
         /\ response' = responseWriterError(req, 401, "parse jwt error")
         /\ UNCHANGED <<packs, files>>
    [] OTHER ->
         IF Size(req.content) > MaxPackSize
         THEN /\ response' = responseWriterError(req, 400, "file size > 150 MB")
              /\ UNCHANGED <<packs, files>>
         ELSE IF ~req.read
              THEN /\ response' = responseWriterError(req, 500, "io copy error")
                   /\ UNCHANGED <<packs, files>>
              ELSE IF IsExistPack(Sum256(req.content))
                   THEN /\ response' = responseWriterError(req, 500, "pack already exists")
                        /\ UNCHANGED <<packs, files>>
                   ELSE /\ packs' = packs \cup {Sum256(req.content)}
                        /\ IF req.create
                           THEN /\ files' = Put(files, ArchivePath(Sum256(req.content)), req.content)
                                /\ response' = Ok200(req)
                           ELSE /\ files' = files
                                /\ response' = responseWriterError(req, 500, "save file error")

\* A request to POST /pack/upload is served.
Upload(req) ==
  /\ saveSiGamePack(req)
  /\ UNCHANGED <<status, clients, gameVars, ticker, releases, closes, bcast, sent,
                 rearm, last, events, ledger, played>>

UploadNext == \E req \in Requests : Upload(req)

UploadSpec == Init /\ [][UploadNext]_vars

\* ------------------------------------------- the winner computation alone

\* The scores a player may have when the winner is computed.
WinnerScores == {-200, -100, 0, 100, 200}

\* The token -> queueID maps after the Users of S joined once each, in any
\* order.
JoinMaps(S) ==
  {m \in [S -> 1..Cardinality(S)] : \A t1, t2 \in S : m[t1] = m[t2] => t1 = t2}

InverseMap(m) ==
  [q \in {m[t] : t \in DOMAIN m} |-> CHOOSE t \in DOMAIN m : m[t] = q]

\* The game on entry to the branch that ends it: the last round is played,
\* an answer is awaited, the Users of the roster joined once each and have
\* any scores.
WinnerInit ==
  /\ status = "running"
  /\ clients = Tokens
  /\ \E S \in (SUBSET {tok \in Tokens : RoleOf(tok) = User}) \ {{}} :
       /\ players \in [S -> WinnerScores]
       /\ playersQueueIDByToken \in JoinMaps(S)
  /\ playersTokenByQueueID = InverseMap(playersQueueIDByToken)
  /\ currentStep = Answering
  /\ currentPlayerID = 1
  /\ currentRound = Len(InitRounds)
  /\ currentTheme = 1
  /\ currentQuestion = 1
  /\ Rounds = InitRounds
  /\ ticker = AnswerTime
  /\ releases = 0
  /\ closes = 0
  /\ bcast = <<>>
  /\ sent = {}
  /\ rearm = 0
  /\ last = [kind |-> "init", type |-> "init", tok |-> NoToken, jwt |-> "ok"]
  /\ events = 0
  /\ ledger = [tok \in Tokens |-> 0]
  /\ played = {}
  /\ packs = {}
  /\ files = Empty
  /\ response = NoResponse

\* The branch runs, from accept_answer or a tick (declined = FALSE) or from
\* decline_answer, with the players visited in some order.
WinnerComputed ==
  /\ status = "running"
  /\ currentStep = Answering
  /\ \E declined \in BOOLEAN : \E order \in Orders(DOMAIN players) :
       Commit(finalBranch(Cur, declined, order),
              Input("final", IF declined THEN DeclineAnswer ELSE AcceptAnswer, NoToken, "ok"))
  /\ UNCHANGED events

WinnerNext == WinnerComputed

WinnerSpec == WinnerInit /\ [][WinnerNext]_vars

\* --------------------------------------------------- the loop with time

\* The ticker fires and the loop handles the tick, whatever the step.
TickHandled ==
  /\ status = "running"
  /\ currentStep \in {WaitingStart, Final} => closes < MaxClose
  /\ \E order \in Orders(DOMAIN players) :
       Commit(tick(Cur, order), Input("tick", "tick", NoToken, "ok"))
  /\ UNCHANGED events

\* A client event arrives while the game waits for its start.
InLobby == currentStep = WaitingStart

LobbyJoin(tok) ==
  /\ InLobby
  /\ JoinEvent(tok)

LobbyStart(tok) ==
  /\ InLobby
  /\ StartGameEvent(tok)

\* A game that clients join and the Leader starts; once it is started no
\* client event arrives and only time passes.
TimedNext ==
  \/ \E tok \in Tokens : LobbyJoin(tok)
  \/ \E tok \in Tokens : LobbyStart(tok)
  \/ TickHandled

\* The ticker is periodic and the loop selects on it in every iteration: while
\* the loop runs, a tick is eventually handled.
TimedSpec == Init /\ [][TimedNext]_vars /\ WF_vars(TickHandled)

\* ------------------------------------------------- the scoring steps alone

\* At most MaxJoins join events were handled before the game was started.
MaxJoins == 3

\* The join events handled in the lobby, in order: Users join, some again.
JoinHistories ==
  UNION {[1..n -> {tok \in Tokens : RoleOf(tok) = User}] : n \in 1..MaxJoins}

\* The game as runGame finds it, before any event.
Lobby ==
  [step |-> WaitingStart, pid |-> 0, round |-> 0, theme |-> 0, quest |-> 0,
   players |-> Empty, byTok |-> Empty, byQ |-> Empty, rounds |-> InitRounds,
   releases |-> 0, closes |-> 0, out |-> <<>>, msgs |-> {}, dur |-> 0,
   outcome |-> "ok", ledger |-> [tok \in Tokens |-> 0], played |-> {}]

\* The game after the joins of the history h from its i-th on.
RECURSIVE joinAll(_, _, _)
joinAll(g, h, i) == IF i > Len(h) THEN g ELSE joinAll(join(g, h[i]), h, i + 1)

\* The game while an answer is awaited: the joins of a history were handled
\* in the lobby, the game was started and reached round 1, a question of the
\* wall was selected and a player of the roster took it with get_quest.
ScoringInit ==
  /\ status = "running"
  /\ clients = Tokens
  /\ \E h \in JoinHistories :
       /\ players = joinAll(Lobby, h, 1).players
       /\ playersQueueIDByToken = joinAll(Lobby, h, 1).byTok
       /\ playersTokenByQueueID = joinAll(Lobby, h, 1).byQ
  /\ currentStep = Answering
  /\ \E tok \in DOMAIN players : currentPlayerID = QueueIDOf(playersQueueIDByToken, tok)
  /\ currentRound = 1
  /\ \E p \in {p \in Payloads : InPack(p)} :
       /\ currentTheme = p[1]
       /\ currentQuestion = p[2]
  /\ Rounds = InitRounds
  /\ ticker = AnswerTime
  /\ releases = 0
  /\ closes = 0
  /\ bcast = <<[Type |-> TakenQuestServer, Exp |-> ExpIn(AnswerTime),
                Data |-> [QueueID |-> currentPlayerID]]>>
  /\ sent = {}
  /\ rearm = AnswerTime
  /\ last = [kind |-> "event", type |-> GetQuest,
             tok |-> TokenOf(playersTokenByQueueID, currentPlayerID), jwt |-> "ok"]
  /\ events = 0
  /\ ledger = [tok \in Tokens |-> 0]
  /\ played = {}
  /\ packs = {}
  /\ files = Empty
  /\ response = NoResponse

\* The steps that score an answer, and the disconnects that may come before
\* them.
ScoringNext ==
  \/ TickAnswering
  \/ \E tok \in Tokens : AcceptAnswerEvent(tok)
  \/ \E tok \in Tokens : DeclineAnswerEvent(tok)
  \/ \E tok \in Tokens : DisconnectEvent(tok)

ScoringSpec == ScoringInit /\ [][ScoringNext]_vars

\* ------------------------------------------------------------------ claims

\* The step of the loop that handles a client event with a good token.
EventStep ==
  /\ status = "running"
  /\ events' = events + 1
  /\ clients' = clients
  /\ last'.kind = "event"
  /\ last'.jwt = "ok"

NumPlayers == Cardinality(DOMAIN players)

StepEdges ==
  {<<WaitingStart, Grettings>>, <<Grettings, ReadingRound>>,
   <<ReadingRound, ReadingThemes>>, <<ReadingThemes, ChooseQuestion>>,
   <<ChooseQuestion, Getting>>, <<Getting, Answering>>,
   <<Getting, ChooseQuestion>>, <<Answering, ChooseQuestion>>,
   <<Grettings, Final>>, <<Getting, Final>>, <<Answering, Final>>}

\* The event handled by the step is not applicable in the step it arrives in.
Inapplicable ==
  /\ EventStep
  /\ \/ last'.type = StartGame /\ currentStep # WaitingStart
     \/ last'.type = ChooseQuest /\ currentStep # ChooseQuestion
     \/ last'.type \in {AcceptAnswer, DeclineAnswer} /\ currentStep # Answering

\* C1: currentStep changes only along the edges of the state machine; an
\* event that is inapplicable in the current step leaves the step, the round,
\* the theme, the question, currentPlayerID and the scores unchanged; Pause is
\* never entered.
C1_StepsFollowEdges ==
  [][/\ currentStep' # currentStep => <<currentStep, currentStep'>> \in StepEdges
     /\ Inapplicable =>
          UNCHANGED <<currentStep, currentRound, currentTheme, currentQuestion,
                      currentPlayerID, players>>
     /\ currentStep' # Pause]_vars

\* C2: with only ticks and events with good tokens from registered clients
\* (no client was ever unregistered, no token was rejected), the loop never
\* panics.
C2_NeverPanics == (clients = Tokens /\ last.jwt = "ok") => status # "crashed"

\* The step of the loop that handles an event whose token is invalid or
\* expired.
RejectedStep ==
  /\ status = "running"
  /\ events' = events + 1
  /\ last'.kind = "event"
  /\ last'.jwt # "ok"

\* C3: an event with an invalid or expired token unregisters its client when
\* the hub still maps it, has no effect on the game state and leaves the loop
\* running (the error is contained to that client).
C3_RejectedTokenContained ==
  [][RejectedStep =>
       (/\ status' = "running"
        /\ UNCHANGED gameVars
        /\ last'.tok \in clients => last'.tok \notin clients')]_vars

\* The roles the claim gives for each event type.
RequiredRoles(type) ==
  IF type \in {StartGame, AcceptAnswer, DeclineAnswer}
  THEN {Leader}
  ELSE IF type \in {ChooseQuest, GetQuest, GiveAnswer} THEN {User} ELSE {}

\* C4: an event of a type with required roles, from a registered client whose
\* role is not among them, sends "permission denied" to that client only,
\* broadcasts nothing, does not re-arm the ticker and changes no game state.
C4_RoleEnforcement ==
  [][(/\ EventStep
      /\ RequiredRoles(last'.type) # {}
      /\ last'.tok \in clients
      /\ RoleOf(last'.tok) \notin RequiredRoles(last'.type))
     => (/\ sent' = {<<last'.tok, "permission denied">>}
         /\ bcast' = <<>>
         /\ rearm' = 0
         /\ ticker' = ticker
         /\ status' = "running"
         /\ UNCHANGED gameVars)]_vars

\* C4 witness: a User was denied start_game after the game had left
\* WaitingStart, and the Leader was denied get_quest in Getting.
C4_Witness ==
  /\ status = "running"
  /\ sent = {<<last.tok, "permission denied">>}
  /\ \/ last.type = StartGame /\ last.tok = "a" /\ currentStep = ChooseQuestion
     \/ last.type = GetQuest /\ last.tok = "L" /\ currentStep = Getting

\* C5: start_game from the Leader with an empty roster replies "cannot start
\* game: no players" to the Leader only, broadcasts nothing, does not re-arm
\* the ticker and changes no game state (the step stays what it was).
C5_StartWithoutPlayers ==
  [][(/\ EventStep
      /\ last'.type = StartGame
      /\ last'.tok \in clients
      /\ RoleOf(last'.tok) = Leader
      /\ NumPlayers = 0)
     => (/\ sent' = {<<last'.tok, "cannot start game: no players">>}
         /\ bcast' = <<>>
         /\ rearm' = 0
         /\ ticker' = ticker
         /\ status' = "running"
         /\ UNCHANGED gameVars)]_vars

\* C5 witness: the Leader was refused start_game in WaitingStart with nobody
\* in the roster.
C5_Witness ==
  /\ last.type = StartGame
  /\ last.tok = "L"
  /\ sent = {<<"L", "cannot start game: no players">>}
  /\ currentStep = WaitingStart
  /\ NumPlayers = 0

\* C6: while the loop runs with a non-empty roster in a step other than
\* WaitingStart and Final, currentPlayerID is in 1..|players|.
C6_CurrentPlayerInRoster ==
  (status = "running" /\ NumPlayers > 0 /\ currentStep \notin {WaitingStart, Final})
    => currentPlayerID \in 1..NumPlayers

\* The queueIDs of the roster are 1..|players|, one per player, and the two
\* maps are inverse to each other over the roster.
DenseQueueIDs ==
  /\ \A tok \in DOMAIN players : tok \in DOMAIN playersQueueIDByToken
  /\ {QueueIDOf(playersQueueIDByToken, tok) : tok \in DOMAIN players} = 1..NumPlayers
  /\ \A t1, t2 \in DOMAIN players :
       QueueIDOf(playersQueueIDByToken, t1) = QueueIDOf(playersQueueIDByToken, t2)
         => t1 = t2
  /\ \A tok \in DOMAIN players :
       TokenOf(playersTokenByQueueID, QueueIDOf(playersQueueIDByToken, tok)) = tok

\* C7: after any joins and disconnects the queueIDs of the roster are
\* distinct and exactly 1..|players|, the maps token->queueID and
\* queueID->token are inverse over the roster, and a join of a non-Leader
\* assigns queueID = |players| + 1.
C7_QueueIDsDense ==
  [][/\ DenseQueueIDs'
     /\ (EventStep /\ last'.type = Join /\ last'.tok \in clients
         /\ RoleOf(last'.tok) # Leader)
        => bcast'[1].Data.QueueID = NumPlayers + 1]_vars

\* C8: the score of every player in the roster is the sum of the signed
\* original prices of the questions it answered (+ accepted, - declined or
\* timed out); nothing else changes a score.
C8_ScoreConservation ==
  status = "running" => \A tok \in DOMAIN players : players[tok] = ledger[tok]

\* The step selects a current question: choose_quest is handled, or the
\* ticker fires in ChooseQuestion and the auto-pick runs.
SelectingStep ==
  /\ status' = "running"
  /\ \/ EventStep /\ last'.type = ChooseQuest /\ currentStep' = Getting /\ rearm' # 0
     \/ /\ status = "running"
        /\ last'.kind = "tick"
        /\ currentStep = ChooseQuestion
        /\ currentStep' = Getting

PriceAt(rounds, r, t, q) ==
  IF r \in 1..Len(rounds) /\ t \in 1..Len(rounds[r]) /\ q \in 1..Len(rounds[r][t])
  THEN rounds[r][t][q]
  ELSE 0

\* C9: a question that was played has price -1 from then on, a question with
\* price -1 is never selected as the current question, and no question is
\* played twice.
C9_ConsumedOnce ==
  [][/\ status' = "running" => \A p \in played' : PriceAt(Rounds', p[1], p[2], p[3]) = -1
     /\ SelectingStep =>
          PriceAt(Rounds', currentRound', currentTheme', currentQuestion') # -1
     /\ (status = "running" /\ status' = "running" /\ ledger' # ledger)
          => <<currentRound, currentTheme, currentQuestion>> \notin played]_vars

\* C10: currentRound never decreases, whatever the event or tick.
C10_RoundMonotone == [][currentRound' >= currentRound]_vars

\* C10 witness: start_game was handled again after the last round was
\* reached, and the round is still the last one.
C10_Witness ==
  /\ status = "running"
  /\ last.type = StartGame
  /\ currentStep = Grettings
  /\ currentRound = NumRounds

\* The steps in which a round is being played.
RoundSteps == {ReadingRound, ReadingThemes, ChooseQuestion, Getting, Answering}

\* C11: in every state whose step is one in which a round is being played,
\* 1 <= currentRound <= |rounds|; exhausting the last round never leaves
\* currentRound = |rounds| + 1 in such a step.
C11_RoundInRange ==
  currentStep \in RoundSteps => currentRound \in 1..Len(Rounds)

\* The step of the loop that handles a tick of the ticker.
TickStep ==
  /\ status = "running"
  /\ events' = events
  /\ last'.kind = "tick"

\* The step applies the round-advance rule: accept_answer or decline_answer
\* of the Leader in Answering, or the ticker firing in Getting or Answering.
AdvanceStep ==
  \/ /\ EventStep
     /\ last'.type \in {AcceptAnswer, DeclineAnswer}
     /\ last'.tok \in clients
     /\ RoleOf(last'.tok) = Leader
     /\ currentStep = Answering
  \/ TickStep /\ currentStep \in {Getting, Answering}

\* The current question is in the wall of the current round and every other
\* question of that round is consumed.
LastUnconsumed ==
  /\ InWall(Cur)
  /\ CurPrice(Cur) >= 0
  /\ \A t \in 1..Len(Rounds[currentRound]) :
       \A q \in 1..Len(Rounds[currentRound][t]) :
         <<t, q>> # <<currentTheme, currentQuestion>> => Rounds[currentRound][t][q] < 0

HasFinalServer(out) == \E i \in 1..Len(out) : out[i].Type = FinalServer

\* C12: when the current question is the last unconsumed question of the
\* last round, the round-advance rule moves to Final with the 5-minute timer
\* and broadcasts final_server, without incrementing currentRound; when the
\* round is exhausted and another round exists, currentRound is incremented
\* by exactly one and the step becomes ChooseQuestion.
C12_AdvanceAtEndOfPack ==
  [][(AdvanceStep /\ LastUnconsumed)
     => IF currentRound = Len(Rounds)
        THEN /\ status' = "running"
             /\ currentStep' = Final
             /\ rearm' = FinalTime
             /\ HasFinalServer(bcast')
             /\ currentRound' = currentRound
        ELSE /\ currentRound' = currentRound + 1
             /\ currentStep' = ChooseQuestion]_vars

\* The scores of the roster, and the players that have the highest one.
TopScore == CHOOSE x \in {players[t] : t \in DOMAIN players} :
              \A t \in DOMAIN players : players[t] <= x

TopScorers == {t \in DOMAIN players : players[t] = TopScore}

\* The first of the top scorers in join order: the one with the least queueID.
FirstTopScorer ==
  CHOOSE t \in TopScorers :
    \A u \in TopScorers :
      QueueIDOf(playersQueueIDByToken, t) <= QueueIDOf(playersQueueIDByToken, u)

\* The winnerID of the final_server broadcast by the last iteration.
BroadcastWinner ==
  LET i == CHOOSE i \in 1..Len(bcast) : bcast[i].Type = FinalServer
  IN  bcast[i].Data.WinnerID

JudgingStep ==
  /\ EventStep
  /\ last'.type \in {AcceptAnswer, DeclineAnswer}
  /\ last'.tok \in clients
  /\ RoleOf(last'.tok) = Leader
  /\ currentStep = Answering
  /\ IsPlayer(Cur, CurrentClient(Cur))
  /\ InWall(Cur)
  /\ CurPrice(Cur) >= 0

\* The price the judged answer is worth to the current player.
JudgedDelta == IF last'.type = AcceptAnswer THEN CurPrice(Cur) ELSE 0 - CurPrice(Cur)

\* C14: accept_answer of the Leader in Answering adds the price of the
\* question taken to the score of the current player, decline_answer
\* subtracts it from that same player; no other score changes, and the
\* score_changed event that follows reports the score of a player of the
\* roster.
C14_JudgedScore ==
  [][JudgingStep
     => (/\ status' = "running"
         /\ players' = [players EXCEPT ![CurrentClient(Cur)] = @ + JudgedDelta]
         /\ \E i \in 1..Len(bcast') :
              /\ bcast'[i].Type = ScoreChangedServer
              /\ \E t \in DOMAIN players' : bcast'[i].Data.Score = players'[t])]_vars

\* What an iteration of the loop may change.
loopVars ==
  <<status, players, playersQueueIDByToken, playersTokenByQueueID, currentStep,
    currentPlayerID, currentRound, currentTheme, currentQuestion, Rounds,
    ticker, releases, closes, bcast, sent, rearm, last>>

\* C15: a tick in WaitingStart or Final releases the pack and signals the
\* hub to close, each exactly once over the whole run, and the loop exits:
\* once the hub was told to close, the Game handles no further tick or event.
C15_TerminalTickOnce ==
  [][/\ (TickStep /\ currentStep \in {WaitingStart, Final} /\ closes = 0)
          => (releases' = 1 /\ closes' = 1)
     /\ closes >= 1 => UNCHANGED loopVars]_vars

\* C16: the loop never blocks on a full queue: when the outbound queue of the
\* client it answers or the broadcast queue of the hub is full, the handling
\* of the event or tick still completes and later events and ticks are
\* processed.
C16_NeverBlocks == status # "blocked"

\* The step of the loop that handles a client event, whatever its token.
AnyEventStep ==
  /\ status = "running"
  /\ events' = events + 1
  /\ last'.kind = "event"

\* C17: every ServerEvent broadcast by an iteration that re-arms the ticker
\* carries Exp = emission time + the duration the ticker is re-armed with;
\* every ServerEvent broadcast by an iteration that does not re-arm it
\* carries Exp = 0; a client event that causes no transition (newDuration =
\* 0) leaves the pending ticker as it was.
C17_ExpMatchesTimer ==
  [][/\ rearm' # 0 => \A i \in 1..Len(bcast') : bcast'[i].Exp = ExpIn(rearm')
     /\ rearm' = 0 => \A i \in 1..Len(bcast') : bcast'[i].Exp = ExpZero
     /\ (AnyEventStep /\ rearm' = 0) => ticker' = ticker]_vars

\* The step serves an upload request; Req is the request served.
UploadStep == response' # response

Req == response'.req

\* The request is an authorised upload of an archive within the size limit,
\* and its bytes arrive.
Authorised ==
  /\ Req.method = "POST"
  /\ Req.form
  /\ Req.jwt = "ok"
  /\ Size(Req.content) <= MaxPackSize
  /\ Req.read

\* C18: the first authorised upload of an archive registers its sha-256 hash
\* and stores the file under <packsPath>/siq_archives/<hex>.zip; every later
\* upload of the same content is answered 500 "pack already exists" and
\* leaves the registry and the files unchanged; an upload with an invalid
\* token or an oversize file changes neither.
C18_UploadOnce ==
  [][UploadStep
     => (/\ (Authorised /\ Sum256(Req.content) \notin packs)
              => (/\ packs' = packs \cup {Sum256(Req.content)}
                  /\ files' = Put(files, ArchivePath(Sum256(Req.content)), Req.content))
         /\ (Authorised /\ Sum256(Req.content) \in packs)
              => (/\ response'.code = 500
                  /\ response'.body = "pack already exists"
                  /\ UNCHANGED <<packs, files>>)
         /\ (Req.jwt # "ok" \/ Size(Req.content) > MaxPackSize)
              => UNCHANGED <<packs, files>>)]_vars

\* The one ServerEvent an iteration broadcast.
OneEvent(out, type, exp) ==
  /\ Len(out) = 1
  /\ out[1].Type = type
  /\ out[1].Exp = exp

\* C19: start_game of the Leader in WaitingStart with at least one player
\* moves to Greetings with a 10 s timer and broadcasts greetings_server;
\* then the ticks go Greetings -> ReadingRound (currentRound becomes 1,
\* reading_round, 4 s) -> ReadingThemes (reading_themes_server with the theme
\* names of the round in order, 3 s per theme) -> ChooseQuestion (wall_server
\* with the themes of the round, 30 s), each broadcasting that one event.
C19_OpeningSequence ==
  [][/\ (/\ EventStep
          /\ last'.type = StartGame
          /\ last'.tok \in clients
          /\ RoleOf(last'.tok) = Leader
          /\ currentStep = WaitingStart
          /\ NumPlayers >= 1)
        => (/\ status' = "running"
            /\ currentStep' = Grettings
            /\ rearm' = GreetingsTime
            /\ ticker' = GreetingsTime
            /\ OneEvent(bcast', GreetingsServer, ExpIn(GreetingsTime))
            /\ UNCHANGED <<currentRound, players>>)
     /\ (TickStep /\ currentStep = Grettings /\ currentRound = 0)
        => (/\ status' = "running"
            /\ currentStep' = ReadingRound
            /\ currentRound' = 1
            /\ rearm' = ReadingRoundTime
            /\ ticker' = ReadingRoundTime
            /\ OneEvent(bcast', ReadingRoundServer, ExpIn(ReadingRoundTime))
            /\ bcast'[1].Data.Round = 1)
     /\ (TickStep /\ currentStep = ReadingRound /\ currentRound = 1)
        => (/\ status' = "running"
            /\ currentStep' = ReadingThemes
            /\ currentRound' = 1
            /\ rearm' = ThemeTime * NumThemes
            /\ ticker' = ThemeTime * NumThemes
            /\ OneEvent(bcast', ReadingThemesServer, ExpIn(ThemeTime * NumThemes))
            /\ bcast'[1].Data.ThemeNames = [t \in 1..NumThemes |-> ThemeId(t)])
     /\ (TickStep /\ currentStep = ReadingThemes /\ currentRound = 1)
        => (/\ status' = "running"
            /\ currentStep' = ChooseQuestion
            /\ currentRound' = 1
            /\ rearm' = WallTime
            /\ ticker' = WallTime
            /\ OneEvent(bcast', WallServer, ExpIn(WallTime))
            /\ bcast'[1].Data.Themes = Rounds[1]
            /\ Rounds' = Rounds)]_vars

\* C19 witness: the opening sequence ran to its end: the tick in
\* ReadingThemes broadcast the wall of round 1, no question played yet.
C19_Witness ==
  /\ status = "running"
  /\ last.kind = "tick"
  /\ currentStep = ChooseQuestion
  /\ currentRound = 1
  /\ played = {}
  /\ Rounds = InitRounds
  /\ rearm = WallTime
  /\ OneEvent(bcast, WallServer, ExpIn(WallTime))

\* The step handles get_quest of a registered client.
GetQuestStep ==
  /\ EventStep
  /\ last'.type = GetQuest
  /\ last'.tok \in clients

RECURSIVE firstFrom(_, _, _)
firstFrom(round, pos, i) ==
  IF i > Len(pos)
  THEN <<0, 0>>
  ELSE IF round[pos[i][1]][pos[i][2]] >= 0
       THEN pos[i]
       ELSE firstFrom(round, pos, i + 1)

FirstAvailable(round) == firstFrom(round, Positions(round, 1, 1), 1)

\* C21: when the ticker fires in ChooseQuestion with a question of the
\* current round available, currentTheme and currentQuestion become the first
\* available question of the round (first in theme order, then question
\* order, price >= 0), the step becomes Getting with a 10 s timer and
\* get_quest_server is broadcast with queueID = currentPlayerID.
C21_AutoPickFirst ==
  [][(/\ TickStep
      /\ currentStep = ChooseQuestion
      /\ InRounds(Cur)
      /\ FirstAvailable(Rounds[currentRound]) # <<0, 0>>)
     => (/\ status' = "running"
         /\ <<currentTheme', currentQuestion'>> = FirstAvailable(Rounds[currentRound])
         /\ currentStep' = Getting
         /\ rearm' = ShortTime
         /\ OneEvent(bcast', GetQuestServer, ExpIn(ShortTime))
         /\ bcast'[1].Data.QueueID = currentPlayerID)]_vars

\* A question of the current round other than the current one has a price
\* >= 0.
OtherRemains ==
  \E t \in 1..Len(Rounds[currentRound]) :
    \E q \in 1..Len(Rounds[currentRound][t]) :
      <<t, q>> # <<currentTheme, currentQuestion>> /\ Rounds[currentRound][t][q] >= 0

\* C22: when the ticker fires in Getting, the question that was current when
\* the tick fired (its round, theme and position) gets price -1 and no other
\* question of any round is modified; if another question with price >= 0
\* remains in that round, the step becomes ChooseQuestion in the same round
\* with a 10 s timer; wall_server is broadcast with the themes of the round
\* now being played.
C22_GettingTickMarksCurrent ==
  [][(TickStep /\ currentStep = Getting /\ InWall(Cur))
     => (/\ status' = "running"
         /\ Rounds' = [Rounds EXCEPT ![currentRound][currentTheme][currentQuestion] = -1]
         /\ OtherRemains
              => (/\ currentStep' = ChooseQuestion
                  /\ currentRound' = currentRound
                  /\ rearm' = ShortTime)
         /\ OneEvent(bcast', WallServer, ExpIn(rearm'))
         /\ currentRound' \in 1..Len(Rounds')
         /\ bcast'[1].Data.Themes = Rounds'[currentRound'])]_vars

\* The rotation rule of the specification.
RotationRule(pid, n) == (pid % n) + 1

HasScoreChanged(out) == \E i \in 1..Len(out) : out[i].Type = ScoreChangedServer

\* C23: when the ticker fires in Answering, the player who took the question
\* (queueID = currentPlayerID before the tick) is debited by the price of the
\* question that was taken, in the round played before any round advance; no
\* other score changes, currentPlayerID is then rotated and score_changed is
\* broadcast.
C23_TimeoutDebitsTaker ==
  [][(/\ TickStep
      /\ currentStep = Answering
      /\ InWall(Cur)
      /\ IsPlayer(Cur, CurrentClient(Cur)))
     => (/\ players' = [players EXCEPT ![CurrentClient(Cur)] = @ - CurPrice(Cur)]
         /\ currentPlayerID' = RotationRule(currentPlayerID, NumPlayers)
         /\ HasScoreChanged(bcast'))]_vars

\* The step scores an answer and the loop goes on: accept_answer or
\* decline_answer of the registered Leader, or the ticker firing, in
\* Answering, the current player being in the roster and the question taken
\* in the wall.
ScoringStep ==
  /\ status' = "running"
  /\ \/ /\ EventStep
        /\ last'.type \in {AcceptAnswer, DeclineAnswer}
        /\ last'.tok \in clients
        /\ RoleOf(last'.tok) = Leader
     \/ TickStep
  /\ currentStep = Answering
  /\ InWall(Cur)
  /\ IsPlayer(Cur, CurrentClient(Cur))

\* C24: after every scoring step (accept_answer, decline_answer, Answering
\* timeout) the new currentPlayerID is (old currentPlayerID mod |players|)
\* + 1, for every reachable old value and roster size > 0, also after
\* players have disconnected.
C24_Rotation ==
  [][(ScoringStep /\ NumPlayers > 0)
     => currentPlayerID' = RotationRule(currentPlayerID, NumPlayers)]_vars

\* The step handles join, or disconnect, of a registered client.
JoinStep ==
  /\ EventStep
  /\ last'.type = Join
  /\ last'.tok \in clients

DisconnectStep ==
  /\ EventStep
  /\ last'.type = Disconnect

\* C25: join of a non-Leader client leaves exactly one Player for that
\* client in the roster, with score 0, and broadcasts join_server with the
\* queueID assigned and the login of the token, Exp = 0; join of the Leader
\* broadcasts join_server and adds no Player and no queueID mapping; no
\* Leader is ever in the roster, and the roster changes only by the join of
\* a non-Leader client, which enters it, and by a disconnect, which leaves
\* it: there is one Player per non-Leader client that joined and has not
\* disconnected.
C25_JoinAddsOnePlayer ==
  [][/\ (JoinStep /\ RoleOf(last'.tok) # Leader)
        => (/\ status' = "running"
            /\ players' = Put(players, last'.tok, 0)
            /\ last'.tok \in DOMAIN playersQueueIDByToken'
            /\ TokenOf(playersTokenByQueueID', playersQueueIDByToken'[last'.tok]) = last'.tok
            /\ OneEvent(bcast', JoinServer, ExpZero)
            /\ bcast'[1].Data.QueueID = playersQueueIDByToken'[last'.tok]
            /\ bcast'[1].Data.Nickname = last'.tok)
     /\ (JoinStep /\ RoleOf(last'.tok) = Leader)
        => (/\ status' = "running"
            /\ OneEvent(bcast', JoinServer, ExpZero)
            /\ bcast'[1].Data.Nickname = last'.tok
            /\ UNCHANGED <<players, playersQueueIDByToken, playersTokenByQueueID>>)
     /\ \A tok \in DOMAIN players' : RoleOf(tok) # Leader
     /\ DOMAIN players' # DOMAIN players
        => \/ /\ JoinStep
              /\ RoleOf(last'.tok) # Leader
              /\ DOMAIN players' = DOMAIN players \cup {last'.tok}
           \/ /\ DisconnectStep
              /\ DOMAIN players' = DOMAIN players \ {last'.tok}]_vars

\* C25 witness: two Users joined and then the Leader joined: join_server was
\* broadcast for the Leader and the roster holds the two Users, one Player
\* each, with score 0.
C25_Witness ==
  /\ status = "running"
  /\ last.type = Join
  /\ last.tok = "L"
  /\ OneEvent(bcast, JoinServer, ExpZero)
  /\ DOMAIN players = {"a", "b"}
  /\ \A tok \in DOMAIN players : players[tok] = 0
  /\ DOMAIN playersQueueIDByToken = {"a", "b"}

\* C26: disconnect removes from the roster exactly the Player of the token
\* of the event and broadcasts disconnect_server with the queueID of that
\* token; the scores of the remaining players, the prices of the pack,
\* currentStep and currentRound are unchanged; a disconnect of a token that
\* never joined removes nobody.
C26_DisconnectRemovesSender ==
  [][DisconnectStep
     => (/\ status' = "running"
         /\ players' = IF last'.tok \in DOMAIN players
                       THEN Drop(players, last'.tok)
                       ELSE players
         /\ OneEvent(bcast', DisconnectServer, ExpZero)
         /\ bcast'[1].Data.QueueID = QueueIDOf(playersQueueIDByToken, last'.tok)
         /\ UNCHANGED <<Rounds, currentStep, currentRound>>)]_vars

\* C26 witness: a and b joined and a disconnected: disconnect_server carries
\* the queueID of a, and b is the roster.
C26_Witness ==
  /\ status = "running"
  /\ last.type = Disconnect
  /\ last.tok = "a"
  /\ DOMAIN players = {"b"}
  /\ OneEvent(bcast, DisconnectServer, ExpZero)
  /\ "a" \in DOMAIN playersQueueIDByToken
  /\ bcast[1].Data.QueueID = playersQueueIDByToken["a"]

\* start_game has just started the game, with at least one player.
JustStarted ==
  /\ status = "running"
  /\ last.type = StartGame
  /\ currentStep = Grettings
  /\ currentRound = 0
  /\ NumPlayers >= 1

\* Every question of every round is consumed.
AllConsumed ==
  \A r \in 1..Len(Rounds) :
    \A t \in 1..Len(Rounds[r]) :
      \A q \in 1..Len(Rounds[r][t]) : Rounds[r][t][q] = -1

\* C27: once the game was started with at least one player, if only ticks
\* occur from then on (no further client event) and ticks are fair, the game
\* consumes every question of every round, reaches Final and, on the next
\* tick, tells the hub to close; it neither stays in ChooseQuestion/Getting
\* forever nor stops before Final.
C27_Termination ==
  JustStarted ~> (currentStep = Final /\ closes >= 1 /\ AllConsumed)
====
